---- MODULE Spec2Model ----
(***************************************************************************)
(* Model of gitlab-ci-parser (src/src/lib.rs): parse() of a .gitlab-ci.yml *)
(* file with its includes and job extends, and the three queries on the    *)
(* assembled configuration.                                                *)
(*                                                                         *)
(* Representation                                                          *)
(*   String          a sequence of one-character strings                   *)
(*   Option<T>       <<>> for None, <<x>> for Some(x)                      *)
(*   serde Value     [t |-> tag, <tag> |-> payload]; a Mapping's payload *)
(*                   is the ordered sequence of its <<key, value>> pairs   *)
(*   BTreeMap<K,V>   a function whose domain is the key set                *)
(*   Rc<Job>         [ptr |-> allocation number, job |-> Job]              *)
(*   Path            [abs |-> BOOLEAN, comps |-> sequence of components]   *)
(***************************************************************************)
EXTENDS Integers, Sequences, FiniteSets, TLC

VARIABLES fs, pc, root, result, query

vars == <<fs, pc, root, result, query>>

----------------------------------------------------------------------------
(* Bounds of the model *)

\* call frames available before the Rust stack overflows
StackLimit == 10

\* longest include-parent chain the configuration query is asked about
MaxChain == 4

----------------------------------------------------------------------------
(* Option, BTreeMap and string constants *)

None == <<>>

Some(x) == <<x>>

EmptyMap == [x \in {} |-> <<>>]

BTreeInsert(m, k, v) == [x \in (DOMAIN m) \cup {k} |-> IF x = k THEN v ELSE m[x]]

\* BTreeMap::extend: every entry of b is inserted into a
BTreeExtend(a, b) == [x \in (DOMAIN a) \cup (DOMAIN b) |-> IF x \in DOMAIN b THEN b[x] ELSE a[x]]

s_include == <<"i","n","c","l","u","d","e">>

s_variables == <<"v","a","r","i","a","b","l","e","s">>

s_stages == <<"s","t","a","g","e","s">>

s_stage == <<"s","t","a","g","e">>

s_before_script == <<"b","e","f","o","r","e","_","s","c","r","i","p","t">>

s_script == <<"s","c","r","i","p","t">>

s_extends == <<"e","x","t","e","n","d","s">>

s_local == <<"l","o","c","a","l">>

s_project == <<"p","r","o","j","e","c","t">>

s_file == <<"f","i","l","e">>

s_default_file == <<".","g","i","t","l","a","b","-","c","i",".","y","m","l">>

s_dotdot == <<".",".">>

----------------------------------------------------------------------------
(* serde_yaml::Value *)

VString(s) == [t |-> "String", str |-> s]

VNumber(n) == [t |-> "Number", num |-> n]

VBool(b) == [t |-> "Bool", bool |-> b]

VNull == [t |-> "Null"]

VSequence(items) == [t |-> "Sequence", seq |-> items]

VMapping(pairs) == [t |-> "Mapping", map |-> pairs]

IsString(val, s) == val.t = "String" /\ val.str = s

\* Mapping::get(&Value::String(key)) on the ordered pairs of a mapping
MappingGet(pairs, key) ==
    LET hits == {i \in 1..Len(pairs) : IsString(pairs[i][1], key)}
    IN  IF hits = {} THEN None
        ELSE Some(pairs[CHOOSE i \in hits : \A j \in hits : i <= j][2])

MappingContainsKey(pairs, key) == MappingGet(pairs, key) # None

Digit(d) == CASE d = 0 -> "0" [] d = 1 -> "1" [] d = 2 -> "2" [] d = 3 -> "3"
              [] d = 4 -> "4" [] d = 5 -> "5" [] d = 6 -> "6" [] d = 7 -> "7"
              [] d = 8 -> "8" [] d = 9 -> "9"

RECURSIVE NumberToString(_)
NumberToString(n) ==
    IF n < 10 THEN <<Digit(n)>> ELSE Append(NumberToString(n \div 10), Digit(n % 10))

BoolToString(b) == IF b THEN <<"t","r","u","e">> ELSE <<"f","a","l","s","e">>

----------------------------------------------------------------------------
(* Field extractors *)

parse_value_as_string(val) == IF val.t = "String" THEN Some(val.str) ELSE None

RECURSIVE FilterStrings(_)
FilterStrings(items) ==
    IF items = <<>> THEN <<>>
    ELSE parse_value_as_string(Head(items)) \o FilterStrings(Tail(items))

parse_value_as_strings(val) ==
    CASE val.t = "String" -> Some(<<val.str>>)
      [] val.t = "Sequence" -> Some(FilterStrings(val.seq))
      [] OTHER -> None

RECURSIVE MapPairs(_, _)
MapPairs(pairs, res) ==
    IF pairs = <<>> THEN res
    ELSE LET k == Head(pairs)[1]
             v == Head(pairs)[2]
             res1 == CASE k.t = "String" /\ v.t = "String" -> BTreeInsert(res, k.str, v.str)
                       [] k.t = "String" /\ v.t = "Number" -> BTreeInsert(res, k.str, NumberToString(v.num))
                       [] k.t = "String" /\ v.t = "Bool" -> BTreeInsert(res, k.str, BoolToString(v.bool))
                       [] OTHER -> res
         IN  MapPairs(Tail(pairs), res1)

parse_value_as_map(val) ==
    IF val.t = "Mapping" THEN Some(MapPairs(val.map, EmptyMap)) ELSE None

\* each field is `if let Some(v) = yml.get(key) { f(v) } else { None }`
parse_raw_job(yml) ==
    LET Field(y, key, f(_)) ==
            LET got == MappingGet(y, key)
            IN  IF got = None THEN None ELSE f(got[1])
    IN
    [stage |-> Field(yml, s_stage, parse_value_as_string),
     before_script |-> Field(yml, s_before_script, parse_value_as_strings),
     script |-> Field(yml, s_script, parse_value_as_strings),
     variables |-> Field(yml, s_variables, parse_value_as_map),
     extends |-> Field(yml, s_extends, parse_value_as_strings),
     extends_jobs |-> <<>>]

----------------------------------------------------------------------------
(* Queries *)

RECURSIVE Job_calculate_variables(_, _)
RECURSIVE Job_calculate_parents(_, _)
Job_calculate_parents(extends_jobs, variables) ==
    IF extends_jobs = <<>> THEN variables
    ELSE Job_calculate_parents(Tail(extends_jobs),
                               Job_calculate_variables(Head(extends_jobs).job, variables))

\* the job's own variables written before its parents', so a parent wins
Job_calculate_variables_own_first(self, variables) ==
    Job_calculate_parents(self.extends_jobs,
                          IF self.variables # None THEN BTreeExtend(variables, self.variables[1])
                          ELSE variables)

Job_calculate_variables(self, variables) ==
    LET inherited == Job_calculate_parents(self.extends_jobs, variables)
    IN  IF self.variables # None THEN BTreeExtend(inherited, self.variables[1])
        ELSE inherited

Job_get_merged_variables(self) == Job_calculate_variables(self, EmptyMap)

RECURSIVE Config_calculate_variables(_, _)
\* the configuration's own variables written before its parent's
Config_calculate_variables_own_first(self, variables) ==
    LET own == BTreeExtend(variables, self.variables)
    IN  IF self.parent # None THEN Config_calculate_variables(self.parent[1], own) ELSE own

Config_calculate_variables(self, variables) ==
    LET inherited == IF self.parent # None
                     THEN Config_calculate_variables(self.parent[1], variables)
                     ELSE variables
    IN  BTreeExtend(inherited, self.variables)

Config_get_merged_variables(self) == Config_calculate_variables(self, EmptyMap)

RECURSIVE lookup_job(_, _)
\* the parent configuration asked before the own job mapping
lookup_job_parent_first(self, job_name) ==
    LET up == IF self.parent # None THEN lookup_job(self.parent[1], job_name) ELSE None
    IN  IF up # None THEN up
        ELSE IF job_name \in DOMAIN self.jobs THEN Some(self.jobs[job_name])
        ELSE None

lookup_job(self, job_name) ==
    IF job_name \in DOMAIN self.jobs THEN Some(self.jobs[job_name])
    ELSE IF self.parent # None THEN lookup_job(self.parent[1], job_name)
    ELSE None

----------------------------------------------------------------------------
(* std::path and the file system *)

RECURSIVE Split(_, _, _)
\* str::split(sep): the pieces of s between separators, empty pieces kept
Split(s, sep, cur) ==
    IF s = <<>> THEN <<cur>>
    ELSE IF Head(s) = sep THEN <<cur>> \o Split(Tail(s), sep, <<>>)
    ELSE Split(Tail(s), sep, Append(cur, Head(s)))

Last(seq) == seq[Len(seq)]

Front(seq) == SubSeq(seq, 1, Len(seq) - 1)

\* Path::new(s): a leading '/' makes the path absolute, empty components vanish
PathNew(s) ==
    [abs |-> s # <<>> /\ Head(s) = "/",
     comps |-> SelectSeq(Split(s, "/", <<>>), LAMBDA c : c # <<>>)]

\* Path::join: an absolute right-hand side replaces the left-hand side
PathJoin(p, q) ==
    IF q.abs THEN q ELSE [abs |-> p.abs, comps |-> p.comps \o q.comps]

\* Path::parent
PathParent(p) == IF p.comps = <<>> THEN None ELSE Some([abs |-> p.abs, comps |-> Front(p.comps)])

d_w == <<"w">>

d_s == <<"s">>

f_r == <<"r">>

f_a == <<"a">>

f_b == <<"b">>

\* directories of the file system, as component sequences from the root
Dirs == {<<>>, <<d_w>>, <<d_s>>}

\* places where a regular file may exist
FilePaths == {<<d_w, f_r>>, <<d_w, f_a>>, <<d_w, f_b>>, <<d_s, s_default_file>>}

\* working directory of the process
Cwd == <<>>

RECURSIVE Walk(_, _, _)
\* path resolution by the operating system: every component but the last
\* must be an existing directory
Walk(files, dir, comps) ==
    IF comps = <<>> THEN None
    ELSE LET c == Head(comps)
             rest == Tail(comps)
         IN  IF c = s_dotdot
             THEN Walk(files, IF dir = <<>> THEN dir ELSE Front(dir), rest)
             ELSE IF Append(dir, c) \in Dirs THEN Walk(files, Append(dir, c), rest)
             ELSE IF rest = <<>> /\ Append(dir, c) \in FilePaths
                     /\ files[Append(dir, c)].kind # "absent"
             THEN Some(Append(dir, c))
             ELSE None

\* std::fs::File::open followed by serde_yaml::from_reader
ReadYaml(files, path) ==
    LET at == Walk(files, IF path.abs THEN <<>> ELSE Cwd, path.comps)
    IN  IF at = None THEN [kind |-> "Err"]
        ELSE IF files[at[1]].kind = "garbage" THEN [kind |-> "Err"]
        ELSE [kind |-> "Ok", val |-> files[at[1]].val]

\* yaml_merge_keys::merge_keys_serde: a document without `<<` keys is
\* returned as it is; the documents of this model have none
merge_keys_serde(raw_yaml) == raw_yaml

----------------------------------------------------------------------------
(* Extension resolver *)

IsAbort(r) == r.kind \in {"Panic", "StackOverflow"}

RECURSIVE parse_job(_, _, _, _, _)
RECURSIVE parse_job_parents(_, _, _, _, _, _, _)
\* every parent looked up among the jobs built so far, never built on demand
parse_job_parents_lookup_only(config, job_name, top, names, extends_jobs, log, depth) ==
    IF names = <<>> THEN [kind |-> "Ok", extends_jobs |-> extends_jobs, log |-> log]
    ELSE parse_job_parents(config, job_name, top, Tail(names),
                           extends_jobs \o lookup_job(config, Head(names)), log, depth)

\* the `for parent_job_name in parent_job_names` loop of parse_job
parse_job_parents(config, job_name, top, names, extends_jobs, log, depth) ==
    IF names = <<>> THEN [kind |-> "Ok", extends_jobs |-> extends_jobs, log |-> log]
    ELSE LET parent_job_name == Head(names)
         IN  IF job_name # parent_job_name /\ MappingContainsKey(top, parent_job_name)
             THEN LET r == parse_job(config, parent_job_name, top, log, depth + 1)
                  IN  IF IsAbort(r) THEN r
                      ELSE parse_job_parents(config, job_name, top, Tail(names),
                               IF r.kind = "Ok" THEN Append(extends_jobs, r.rc) ELSE extends_jobs,
                               r.log, depth)
             ELSE parse_job_parents(config, job_name, top, Tail(names),
                      extends_jobs \o lookup_job(config, parent_job_name), log, depth)

\* log is the sequence of <<file, job name>> for which Rc::new has run so
\* far; the pointer of a new Rc is its position in that sequence
parse_job(config, job_name, top, log, depth) ==
    IF depth > StackLimit THEN [kind |-> "StackOverflow", log |-> log]
    ELSE LET got == MappingGet(top, job_name)
         IN  IF got # None /\ got[1].t = "Mapping"
             THEN LET j == parse_raw_job(got[1].map)
                      r == IF j.extends # None
                           THEN parse_job_parents(config, job_name, top, j.extends[1], <<>>, log, depth)
                           ELSE [kind |-> "Ok", extends_jobs |-> <<>>, log |-> log]
                  IN  IF IsAbort(r) THEN r
                      ELSE [kind |-> "Ok",
                            rc |-> [ptr |-> Len(r.log) + 1,
                                    job |-> [j EXCEPT !.extends_jobs = r.extends_jobs]],
                            log |-> Append(r.log, <<config.file, job_name>>)]
             ELSE [kind |-> "Err", log |-> log]

----------------------------------------------------------------------------
(* Include resolver and configuration assembler *)

\* Result<GitlabCIConfig, _>::ok() on the outcome of parse_aux
ResultOk(r) ==
    IF IsAbort(r) THEN r
    ELSE [kind |-> "Ok", parent |-> IF r.kind = "Ok" THEN Some(r.config) ELSE None, log |-> r.log]

RECURSIVE StageNames(_)
\* the `for stage in seq` loop of parse_aux
StageNames(seq) ==
    IF seq = <<>> THEN <<>>
    ELSE (IF Head(seq).t = "String" THEN <<Head(seq).str>> ELSE <<>>) \o StageNames(Tail(seq))

RECURSIVE GlobalVars(_, _)
\* the `for (key, value) in global_var_map` loop of parse_aux
GlobalVars(pairs, variables) ==
    IF pairs = <<>> THEN variables
    ELSE LET key == Head(pairs)[1]
             value == Head(pairs)[2]
         IN  GlobalVars(Tail(pairs),
                        IF key.t = "String" /\ value.t = "String"
                        THEN BTreeInsert(variables, key.str, value.str) ELSE variables)

RECURSIVE parse_aux(_, _, _, _, _)
RECURSIVE parse_includes(_, _, _, _, _, _)
RECURSIVE parse_includes_seq(_, _, _, _, _, _)
RECURSIVE parse_aux_keys(_, _, _, _, _)

\* the `for include in includes` loop of parse_includes
parse_includes_seq(files, context, includes, parent, log, depth) ==
    IF includes = <<>> THEN [kind |-> "Ok", parent |-> parent, log |-> log]
    ELSE LET r == parse_includes(files, context, Head(includes), parent, log, depth + 1)
         IN  IF IsAbort(r) THEN r
             ELSE parse_includes_seq(files, context, Tail(includes), r.parent, r.log, depth)

parse_includes(files, context, include, parent, log, depth) ==
    IF depth > StackLimit THEN [kind |-> "StackOverflow", log |-> log]
    ELSE CASE include.t = "String" ->
                IF include.str = <<>> THEN [kind |-> "Panic", log |-> log]
                ELSE LET ch == Head(include.str)
                         stripped == IF ch = "/" \/ ch = "\\" THEN Tail(include.str) ELSE include.str
                         include_filename == PathJoin(context, PathNew(stripped))
                     IN  ResultOk(parse_aux(files, PathJoin(context, include_filename),
                                            parent, log, depth + 1))
           [] include.t = "Sequence" ->
                parse_includes_seq(files, context, include.seq, parent, log, depth)
           [] include.t = "Mapping" ->
                LET local == MappingGet(include.map, s_local)
                    project == MappingGet(include.map, s_project)
                IN  IF local # None /\ local[1].t = "String"
                    THEN ResultOk(parse_aux(files, PathJoin(context, PathNew(local[1].str)),
                                            parent, log, depth + 1))
                    ELSE IF project # None /\ project[1].t = "String"
                    THEN LET project_name == Last(Split(project[1].str, "/", <<>>))
                             got == MappingGet(include.map, s_file)
                             file == IF got = None THEN VString(s_default_file) ELSE got[1]
                         IN  IF file.t = "String"
                             THEN ResultOk(parse_aux(files,
                                      PathJoin(context,
                                          PathJoin(PathJoin(PathNew(s_dotdot), PathNew(project_name)),
                                                   PathNew(file.str))),
                                      parent, log, depth + 1))
                             ELSE [kind |-> "Ok", parent |-> parent, log |-> log]
                    ELSE [kind |-> "Ok", parent |-> parent, log |-> log]
           [] OTHER -> [kind |-> "Ok", parent |-> parent, log |-> log]

\* the `for (k, v) in map.iter()` loop of parse_aux, from the i-th pair on
parse_aux_keys(config, map, i, log, depth) ==
    IF i > Len(map) THEN [kind |-> "Ok", config |-> config, log |-> log]
    ELSE LET k == map[i][1]
             v == map[i][2]
         IN  IF k.t # "String" \/ k.str \in DOMAIN config.jobs
             THEN parse_aux_keys(config, map, i + 1, log, depth)
             ELSE IF k.str = s_variables
             THEN IF v.t # "Mapping" THEN [kind |-> "Err", log |-> log]
                  ELSE parse_aux_keys(
                           [config EXCEPT !.variables = GlobalVars(v.map, config.variables)],
                           map, i + 1, log, depth)
             ELSE IF k.str = s_stages /\ v.t = "Sequence"
             THEN parse_aux_keys([config EXCEPT !.stages = config.stages \o StageNames(v.seq)],
                                 map, i + 1, log, depth)
             ELSE LET job_def == parse_job(config, k.str, map, log, depth + 1)
                  IN  IF IsAbort(job_def) THEN job_def
                      ELSE parse_aux_keys(
                               IF job_def.kind = "Ok"
                               THEN [config EXCEPT !.jobs = BTreeInsert(config.jobs, k.str, job_def.rc)]
                               ELSE config,
                               map, i + 1, job_def.log, depth)

parse_aux(files, gitlab_file, parent, log, depth) ==
    IF depth > StackLimit THEN [kind |-> "StackOverflow", log |-> log]
    ELSE LET raw_yaml == ReadYaml(files, gitlab_file)
         IN  IF raw_yaml.kind = "Err" THEN [kind |-> "Err", log |-> log]
             ELSE LET val == merge_keys_serde(raw_yaml.val)
                      config == [file |-> gitlab_file, parent |-> None, stages |-> <<>>,
                                 variables |-> EmptyMap, jobs |-> EmptyMap]
                  IN  IF val.t # "Mapping" THEN [kind |-> "Ok", config |-> config, log |-> log]
                      ELSE LET includes == MappingGet(val.map, s_include)
                               dir == PathParent(gitlab_file)
                               inc == IF includes = None
                                      THEN [kind |-> "Ok", parent |-> parent, log |-> log]
                                      ELSE IF dir = None THEN [kind |-> "Panic", log |-> log]
                                      ELSE parse_includes(files, dir[1], includes[1], parent,
                                                          log, depth + 1)
                           IN  IF IsAbort(inc) THEN inc
                               ELSE parse_aux_keys([config EXCEPT !.parent = inc.parent],
                                                   val.map, 1, inc.log, depth)

\* the public entry point
parse(files, gitlab_file) == parse_aux(files, gitlab_file, None, <<>>, 1)

----------------------------------------------------------------------------
(* The documents the file system is drawn from *)

j_A == <<"A">>

j_B == <<"B">>

j_C == <<"C">>

j_D == <<"D">>

j_T == <<"T">>

j_U == <<"U">>

j_Z == <<"Z">>

v_X == <<"X">>

v_Y == <<"Y">>

v_N == <<"N">>

f_m == <<"m">>

Pair(k, v) == <<VString(k), v>>

OptPair(k, optv) == IF optv = None THEN <<>> ELSE <<Pair(k, optv[1])>>

Strs(names) == VSequence([i \in 1..Len(names) |-> VString(names[i])])

Local(name) == VMapping(<<Pair(s_local, VString(name))>>)

Project(id) == VMapping(<<Pair(s_project, VString(id))>>)

\* variables: {X: <who>, <own>: <who>}
Globals(own, who) == VMapping(<<Pair(v_X, VString(who)), Pair(own, VString(who))>>)

JobBody(ext, variables) == VMapping(OptPair(s_extends, ext) \o OptPair(s_variables, variables))

Absent == [kind |-> "absent", val |-> VNull]

Garbage == [kind |-> "garbage", val |-> VNull]

Yaml(val) == [kind |-> "yaml", val |-> val]

\* values of the `include` key of the root file
RootIncludes ==
    {VString(f_a), VString(<<"/">> \o f_a), VString(<<"\\">> \o f_a), VString(<<>>),
     Local(f_a), Project(<<"x", "/">> \o d_s), VNumber(7),
     VMapping(<<Pair(s_project, VString(d_s)), Pair(s_file, VNumber(1))>>),
     VMapping(<<Pair(<<"r","e","m","o","t","e">>, VString(f_a))>>),
     VSequence(<<VString(f_a), VString(f_b)>>),
     VSequence(<<Local(f_a), Local(f_b)>>),
     VSequence(<<Local(f_b), Local(f_a)>>),
     VSequence(<<Local(f_a), Local(f_m), Local(f_b)>>),
     VSequence(<<Local(f_a), Local(f_m)>>),
     VSequence(<<Local(f_a), VNumber(7), Local(f_b)>>),
     VSequence(<<Local(f_a), Project(d_s), Local(f_b)>>)}

\* top-level entries of the root file besides `include`
RootBodies ==
    {<<Pair(s_variables, Globals(<<"R">>, <<"r">>)),
       Pair(s_stages, VSequence(<<VString(<<"1">>), VNumber(2), VString(<<"3">>)>>)),
       Pair(j_T, JobBody(Some(Strs(<<j_A>>)), None)),
       Pair(j_U, VString(<<"u">>)),
       <<VNumber(5), VMapping(<<>>)>>>>,
     <<Pair(j_T, VMapping(<<Pair(s_stage, VString(<<"1">>)),
                             Pair(s_before_script, VString(<<"x">>)),
                             Pair(s_script, VSequence(<<VString(<<"y">>), VNumber(2)>>)),
                             Pair(s_extends, VString(j_D))>>)),
       Pair(s_stages, VMapping(<<Pair(s_stage, VString(<<"1">>))>>))>>,
     <<Pair(j_T, JobBody(None, None)),
       Pair(s_variables, VString(<<"x">>)),
       Pair(j_U, JobBody(None, None))>>}

RootDocs ==
    {Absent, Garbage, Yaml(VString(<<"x">>))}
    \cup {Yaml(VMapping(body)) : body \in RootBodies}
    \cup {Yaml(VMapping(<<Pair(s_include, inc)>> \o body)) : inc \in RootIncludes, body \in RootBodies}

\* an included file: its own global X, one more global, and jobs A and D
Included(inc, own, who) ==
    Yaml(VMapping(OptPair(s_include, inc)
                  \o <<Pair(s_variables, Globals(own, who)),
                       Pair(j_A, JobBody(None, Some(VMapping(<<Pair(v_X, VString(who))>>)))),
                       Pair(j_D, JobBody(None, Some(VMapping(<<Pair(v_Y, VString(who))>>))))>>))

ADocs ==
    {Absent, Garbage, Yaml(VNumber(1))}
    \cup {Included(inc, <<"A">>, <<"a">>) :
            inc \in {None, Some(Local(f_b)), Some(Local(f_m)), Some(Local(f_a)), Some(Local(f_r))}}

BDocs ==
    {Absent, Yaml(VSequence(<<>>)),
     Yaml(VMapping(<<Pair(s_variables, VNumber(1))>>))}
    \cup {Included(inc, <<"B">>, <<"b">>) : inc \in {None, Some(Local(f_a)), Some(Project(d_s))}}

GDocs == {Absent, Included(None, <<"G">>, <<"g">>)}

\* values of `extends` in a job of the root file
ExtendsChoices ==
    {None, Some(VString(j_B)), Some(Strs(<<j_B, j_C>>)), Some(Strs(<<j_C, j_A>>)),
     Some(Strs(<<j_A>>)), Some(Strs(<<j_D>>)), Some(Strs(<<j_C, j_C>>)),
     Some(VSequence(<<VString(j_Z), VNumber(3), VString(j_D), VString(j_B)>>))}

\* bodies of the job `name` of the root file
JobBodies(name) ==
    {VString(name)}
    \cup {JobBody(ext, variables) :
            ext \in ExtendsChoices,
            variables \in {None,
                           Some(VMapping(<<Pair(v_X, VString(name)), Pair(v_N, VNumber(12)),
                                           Pair(name, VBool(TRUE)),
                                           <<VNumber(1), VString(name)>>,
                                           Pair(v_Y, VNull)>>))}}

\* the file systems with every include shape
IncludeFiles ==
    {[p \in FilePaths |-> CASE p = <<d_w, f_r>> -> r [] p = <<d_w, f_a>> -> a
                            [] p = <<d_w, f_b>> -> b [] OTHER -> g] :
        r \in RootDocs, a \in ADocs, b \in BDocs, g \in GDocs}

\* the file systems with every extends graph over the jobs A, B, C of the
\* root file, which includes a, which includes b
ExtendsFiles ==
    {[p \in FilePaths |->
        CASE p = <<d_w, f_r>> ->
                 Yaml(VMapping(<<Pair(s_include, Local(f_a)), Pair(j_A, ba), Pair(j_B, bb),
                                 Pair(j_C, bc)>>))
          [] p = <<d_w, f_a>> ->
                 Yaml(VMapping(<<Pair(s_include, Local(f_b)),
                                 Pair(j_D, JobBody(None, Some(VMapping(<<Pair(v_Y, VString(<<"a">>))>>))))>>))
          [] p = <<d_w, f_b>> -> Included(None, <<"B">>, <<"b">>)
          [] OTHER -> Absent] :
        ba \in JobBodies(j_A), bb \in JobBodies(j_B), bc \in JobBodies(j_C)}

\* the paths parse is called with: absolute, and relative to the working directory
RootPaths == {[abs |-> TRUE, comps |-> <<d_w, f_r>>], [abs |-> FALSE, comps |-> <<d_w, f_r>>]}

\* the job names the queries are called with
QueryNames == {j_A, j_B, j_C, j_D, j_T, j_Z}

----------------------------------------------------------------------------
(* The state machine *)

Init ==
    /\ fs \in IncludeFiles \cup ExtendsFiles
    /\ pc = "init"
    /\ root = None
    /\ result = [kind |-> "none"]
    /\ query = [op |-> "none"]

\* parse(gitlab_file)
Parse(gitlab_file) ==
    /\ pc = "init"
    /\ pc' = "parsed"
    /\ root' = Some(gitlab_file)
    /\ result' = parse(fs, gitlab_file)
    /\ UNCHANGED <<fs, query>>

RECURSIVE Chain(_)
\* a configuration and its include parents, nearest first
Chain(config) == <<config>> \o (IF config.parent = None THEN <<>> ELSE Chain(config.parent[1]))

\* config.lookup_job(job_name) on the assembled configuration
LookupJob(job_name) ==
    /\ pc = "parsed" /\ result.kind = "Ok"
    /\ query' = [op |-> "lookup_job", arg |-> job_name, out |-> lookup_job(result.config, job_name)]
    /\ UNCHANGED <<fs, pc, root, result>>

\* job.get_merged_variables() on a job of the assembled configuration
JobGetMergedVariables(job_name) ==
    /\ pc = "parsed" /\ result.kind = "Ok"
    /\ job_name \in DOMAIN result.config.jobs
    /\ query' = [op |-> "job_get_merged_variables", arg |-> job_name,
                 out |-> Job_get_merged_variables(result.config.jobs[job_name].job)]
    /\ UNCHANGED <<fs, pc, root, result>>

\* config.get_merged_variables() on the assembled configuration or on one
\* of its parents
ConfigGetMergedVariables(i) ==
    /\ pc = "parsed" /\ result.kind = "Ok"
    /\ i \in 1..Len(Chain(result.config))
    /\ query' = [op |-> "config_get_merged_variables", arg |-> i,
                 out |-> Config_get_merged_variables(Chain(result.config)[i])]
    /\ UNCHANGED <<fs, pc, root, result>>

Next ==
    \/ \E gitlab_file \in RootPaths : Parse(gitlab_file)
    \/ \E job_name \in QueryNames : LookupJob(job_name)
    \/ \E job_name \in QueryNames : JobGetMergedVariables(job_name)
    \/ \E i \in 1..MaxChain : ConfigGetMergedVariables(i)

Spec == Init /\ [][Next]_vars


----------------------------------------------------------------------------
(* Vocabulary of the properties *)

Parsed == pc = "parsed"

Assembled == pc = "parsed" /\ result.kind = "Ok"

\* b written over a
Overwrite(a, b) == [k \in (DOMAIN a) \cup (DOMAIN b) |-> IF k \in DOMAIN b THEN b[k] ELSE a[k]]

RECURSIVE FoldMaps(_)
\* the left-to-right fold of a sequence of mappings, later ones overwriting
FoldMaps(maps) ==
    IF maps = <<>> THEN EmptyMap
    ELSE Overwrite(FoldMaps(Front(maps)), Last(maps))

OwnVariables(job) == IF job.variables = None THEN EmptyMap ELSE job.variables[1]

RECURSIVE Merged(_)
\* merged(J) as the fold of the parents' merged variables and J's own
Merged(job) ==
    FoldMaps([i \in 1..Len(job.extends_jobs) |-> Merged(job.extends_jobs[i].job)]
             \o <<OwnVariables(job)>>)

Reverse(seq) == [i \in 1..Len(seq) |-> seq[Len(seq) + 1 - i]]

Range(seq) == {seq[i] : i \in 1..Len(seq)}

RECURSIVE IsSubseq(_, _)
IsSubseq(a, b) ==
    IF a = <<>> THEN TRUE
    ELSE IF b = <<>> THEN FALSE
    ELSE IF Head(a) = Head(b) THEN IsSubseq(Tail(a), Tail(b))
    ELSE IsSubseq(a, Tail(b))

\* the string keys of a mapping and the value under one of them
Keys(pairs) == {pairs[i][1].str : i \in {j \in 1..Len(pairs) : pairs[j][1].t = "String"}}

Body(pairs, k) == pairs[CHOOSE i \in 1..Len(pairs) : IsString(pairs[i][1], k)][2]

\* the first job called name in a sequence of configurations
FirstJob(configs, name) ==
    LET hits == {i \in 1..Len(configs) : name \in DOMAIN configs[i].jobs}
    IN  IF hits = {} THEN None
        ELSE Some(configs[CHOOSE i \in hits : \A j \in hits : i <= j].jobs[name])

\* where in the file system a path leads
Loc(path) == Walk(fs, IF path.abs THEN <<>> ELSE Cwd, path.comps)

\* the files of the assembled configuration's include parents, nearest first
ParentLocs == LET ch == Tail(Chain(result.config)) IN [i \in 1..Len(ch) |-> Loc(ch[i].file)[1]]

RootLoc == <<d_w, f_r>>

RootIsYaml == fs[RootLoc].kind = "yaml"

RootIsMapping == RootIsYaml /\ fs[RootLoc].val.t = "Mapping"

TopPairs == fs[RootLoc].val.map

\* the names a job body lists under `extends`
ExtendsNames(body) ==
    IF body.t # "Mapping" \/ s_extends \notin Keys(body.map) THEN {}
    ELSE LET ext == Body(body.map, s_extends)
         IN  CASE ext.t = "String" -> {ext.str}
               [] ext.t = "Sequence" ->
                    {ext.seq[i].str : i \in {j \in 1..Len(ext.seq) : ext.seq[j].t = "String"}}
               [] OTHER -> {}

\* the pairs <<a, c>> with a step of R from a followed by a step of S to c
Compose(R, S) == {<<p[1][1], p[2][2]>> : p \in {q \in R \X S : q[1][2] = q[2][1]}}

RECURSIVE Closure(_, _)
Closure(R, k) == IF k = 0 THEN R ELSE Closure(R \cup Compose(R, R), k - 1)

\* the sibling jobs of the root file that extend each other
ExtendsEdges ==
    LET jobs == {k \in Keys(TopPairs) : Body(TopPairs, k).t = "Mapping"}
    IN  {e \in jobs \X jobs : e[1] # e[2] /\ e[2] \in ExtendsNames(Body(TopPairs, e[1]))}

ExtendsCycle == {e[1] : e \in {c \in Closure(ExtendsEdges, 2) : c[1] = c[2]}}

\* the file an include entry of a file in directory dir designates
EntryTarget(dir, e) ==
    CASE e.t = "String" ->
            IF e.str = <<>> THEN None
            ELSE Some(Append(dir, IF Head(e.str) \in {"/", "\\"} THEN Tail(e.str) ELSE e.str))
      [] e.t = "Mapping" /\ s_local \in Keys(e.map) /\ Body(e.map, s_local).t = "String" ->
            Some(Append(dir, Body(e.map, s_local).str))
      [] e.t = "Mapping" /\ s_local \notin Keys(e.map) /\ s_project \in Keys(e.map)
            /\ Body(e.map, s_project).t = "String" ->
            IF s_file \notin Keys(e.map)
            THEN Some(<<Last(Split(Body(e.map, s_project).str, "/", <<>>)), s_default_file>>)
            ELSE IF Body(e.map, s_file).t = "String"
            THEN Some(<<Last(Split(Body(e.map, s_project).str, "/", <<>>)), Body(e.map, s_file).str>>)
            ELSE None
      [] OTHER -> None

\* the entries of an `include` value
Entries(include) == IF include.t = "Sequence" THEN include.seq ELSE <<include>>

\* an entry that designates a readable mapping document with well-formed variables
Resolves(dir, e) ==
    LET t == EntryTarget(dir, e)
    IN  /\ t # None /\ t[1] \in FilePaths
        /\ fs[t[1]].kind = "yaml" /\ fs[t[1]].val.t = "Mapping"
        /\ s_variables \in Keys(fs[t[1]].val.map) => Body(fs[t[1]].val.map, s_variables).t = "Mapping"

\* an entry of no recognized shape, or whose file is missing or is not YAML
Fails(dir, e) ==
    LET t == EntryTarget(dir, e)
    IN  t = None \/ t[1] \notin FilePaths \/ fs[t[1]].kind \in {"absent", "garbage"}

\* file p includes file q
IncludeEdges ==
    {e \in FilePaths \X FilePaths :
        /\ fs[e[1]].kind = "yaml" /\ fs[e[1]].val.t = "Mapping"
        /\ s_include \in Keys(fs[e[1]].val.map)
        /\ \E x \in Range(Entries(Body(fs[e[1]].val.map, s_include))) :
              EntryTarget(Front(e[1]), x) = Some(e[2])}

\* the root file reaches a file that includes itself, directly or not
IncludeCycle ==
    LET reach == Closure(IncludeEdges, 2)
    IN  \E p \in FilePaths : <<p, p>> \in reach /\ (p = RootLoc \/ <<RootLoc, p>> \in reach)

RootInclude == Body(TopPairs, s_include)

RootHasIncludeSeq ==
    RootIsMapping /\ s_include \in Keys(TopPairs) /\ RootInclude.t = "Sequence"

\* the global variables a file's document declares
DeclaredGlobals(loc) ==
    LET doc == fs[loc].val.map
    IN  IF s_variables \in Keys(doc) /\ Body(doc, s_variables).t = "Mapping"
        THEN LET vs == Body(doc, s_variables).map
             IN  [k \in {x \in Keys(vs) : Body(vs, x).t = "String"} |-> Body(vs, k).str]
        ELSE EmptyMap

----------------------------------------------------------------------------
(* Properties *)

\* the stack bound cuts no parse short but those of cyclic inputs
OverflowOnlyOnCycle ==
    (Parsed /\ result.kind = "StackOverflow") => (IncludeCycle \/ (RootIsMapping /\ ExtendsCycle # {}))

\* C1: the merged variables of a job are the left-to-right fold of its
\* parents' merged variables and then its own: the job's own value beats
\* every parent's, and of two parents setting a variable the later-listed wins.
C1_JobMergedIsFold ==
    (Assembled /\ query.op = "job_get_merged_variables") =>
        LET J == result.config.jobs[query.arg].job
            P == [i \in 1..Len(J.extends_jobs) |-> Merged(J.extends_jobs[i].job)]
            V == OwnVariables(J)
        IN  /\ query.out = FoldMaps(P \o <<V>>)
            /\ \A k \in DOMAIN V : query.out[k] = V[k]
            /\ \A i \in 1..Len(P) : \A k \in (DOMAIN P[i]) \ (DOMAIN V) :
                  (\A j \in (i + 1)..Len(P) : k \notin DOMAIN P[j]) => query.out[k] = P[i][k]

\* a job without its own X whose two parents set X differently was asked
\* for its merged variables and shows the second parent's X
C1_Witness ==
    /\ Assembled /\ query.op = "job_get_merged_variables"
    /\ LET J == result.config.jobs[query.arg].job
       IN  /\ Len(J.extends_jobs) = 2
           /\ v_X \notin DOMAIN OwnVariables(J)
           /\ v_X \in DOMAIN Merged(J.extends_jobs[1].job)
           /\ v_X \in DOMAIN Merged(J.extends_jobs[2].job)
           /\ Merged(J.extends_jobs[1].job)[v_X] # Merged(J.extends_jobs[2].job)[v_X]
           /\ query.out[v_X] = Merged(J.extends_jobs[2].job)[v_X]

\* C2: the merged variables of a configuration are the fold of the own
\* variables of its parent chain from the oldest to the nearest and then its
\* own: every variable of the chain is present and the nearest definition wins.
C2_ConfigMergedIsFold ==
    (Assembled /\ query.op = "config_get_merged_variables") =>
        LET all == Chain(result.config)
            ch == SubSeq(all, query.arg, Len(all))
        IN  /\ query.out = FoldMaps(Reverse([i \in 1..Len(ch) |-> ch[i].variables]))
            /\ \A i \in 1..Len(ch) : \A k \in DOMAIN ch[i].variables :
                  /\ k \in DOMAIN query.out
                  /\ (\A j \in 1..(i - 1) : k \notin DOMAIN ch[j].variables)
                        => query.out[k] = ch[i].variables[k]

\* a configuration with two parents, all three setting X differently, was
\* asked for its merged variables
C2_Witness ==
    /\ Assembled /\ query.op = "config_get_merged_variables" /\ query.arg = 1
    /\ LET ch == Chain(result.config)
       IN  /\ Len(ch) >= 3
           /\ \A i \in 1..3 : v_X \in DOMAIN ch[i].variables
           /\ ch[1].variables[v_X] # ch[2].variables[v_X]
           /\ ch[2].variables[v_X] # ch[3].variables[v_X]
           /\ query.out[v_X] = ch[1].variables[v_X]
           /\ \E k \in DOMAIN ch[3].variables : k \notin DOMAIN ch[1].variables \cup DOMAIN ch[2].variables

RECURSIVE ParentsFollowRule(_, _, _, _, _)
\* parents is names mapped in order through the resolution rule for the job
\* called own of configuration config, assembled from the document doc
ParentsFollowRule(config, doc, own, names, parents) ==
    IF names = <<>> THEN parents = <<>>
    ELSE LET e == Head(names)
             sibling == e # own /\ e \in Keys(doc)
             up == FirstJob(Tail(Chain(config)), e)
         IN  IF sibling /\ Body(doc, e).t = "Mapping"
             THEN /\ parents # <<>>
                  /\ [Head(parents).job EXCEPT !.extends_jobs = <<>>] = parse_raw_job(Body(doc, e).map)
                  /\ e \in DOMAIN config.jobs => Merged(Head(parents).job) = Merged(config.jobs[e].job)
                  /\ ParentsFollowRule(config, doc, own, Tail(names), Tail(parents))
             ELSE IF ~sibling /\ up # None
             THEN /\ parents # <<>>
                  /\ Head(parents) = up[1]
                  /\ ParentsFollowRule(config, doc, own, Tail(names), Tail(parents))
             ELSE ParentsFollowRule(config, doc, own, Tail(names), parents)

C7_LookupJob ==
    /\ (Assembled /\ query.op = "lookup_job") =>
           query.out = FirstJob(Chain(result.config), query.arg)
    /\ (Assembled /\ query.op = "job_get_merged_variables") =>
           LET J == result.config.jobs[query.arg].job
           IN  \A n \in QueryNames :
                  LET up == FirstJob(Tail(Chain(result.config)), n)
                  IN  (/\ J.extends = Some(<<n>>)
                       /\ OwnVariables(J) = EmptyMap
                       /\ n \notin Keys(TopPairs)
                       /\ up # None)
                      => query.out = Merged(up[1].job)

\* a job that two included files define and the including file does not
\* was looked up from the including file, and the nearer file's job came back
C7_Witness ==
    /\ Assembled /\ query.op = "lookup_job"
    /\ LET ch == Chain(result.config)
       IN  /\ Len(ch) >= 3
           /\ query.arg \notin DOMAIN ch[1].jobs
           /\ query.arg \in DOMAIN ch[2].jobs
           /\ query.arg \in DOMAIN ch[3].jobs
           /\ ch[2].jobs[query.arg] # ch[3].jobs[query.arg]
           /\ query.out = Some(ch[2].jobs[query.arg])

\* C3: when the root file's include is a sequence of resolvable entries, the
\* last entry's configuration is the nearest parent, the earlier ones lie
\* further back in their order, and a global variable the root file leaves
\* unset shows the last entry's value.
C3_IncludeSequenceChain ==
    (/\ Assembled /\ RootHasIncludeSeq /\ RootInclude.seq # <<>>
     /\ \A e \in Range(RootInclude.seq) : Resolves(<<d_w>>, e))
    => LET targets == [i \in 1..Len(RootInclude.seq) |-> EntryTarget(<<d_w>>, RootInclude.seq[i])[1]]
       IN  /\ ParentLocs # <<>>
           /\ ParentLocs[1] = Last(targets)
           /\ IsSubseq(Reverse(targets), ParentLocs)
           /\ \A k \in (DOMAIN DeclaredGlobals(Last(targets))) \ (DOMAIN DeclaredGlobals(RootLoc)) :
                 /\ k \in DOMAIN Config_get_merged_variables(result.config)
                 /\ Config_get_merged_variables(result.config)[k] = DeclaredGlobals(Last(targets))[k]

\* C4: when an entry of the root file's include sequence fails to resolve,
\* the files of the entries that do resolve are all in the parent chain and
\* their global variables are in the merged variables (stated for sequences
\* without bare-string entries, whose path is built by a branch of its own).
C4_FailedIncludeKeepsChain ==
    (/\ Assembled /\ RootHasIncludeSeq
     /\ \A e \in Range(RootInclude.seq) : e.t # "String"
     /\ \A e \in Range(RootInclude.seq) : Resolves(<<d_w>>, e) \/ Fails(<<d_w>>, e)
     /\ \E e \in Range(RootInclude.seq) : Fails(<<d_w>>, e))
    => \A e \in Range(RootInclude.seq) :
          Resolves(<<d_w>>, e) =>
             /\ EntryTarget(<<d_w>>, e)[1] \in Range(ParentLocs)
             /\ DOMAIN DeclaredGlobals(EntryTarget(<<d_w>>, e)[1])
                   \subseteq DOMAIN Config_get_merged_variables(result.config)

\* C5: when sibling jobs of the root file extend each other in a cycle,
\* parse still returns a configuration and the jobs of the cycle are in it.
C5_ExtendsCycleTerminates ==
    (Parsed /\ RootIsMapping /\ ~IncludeCycle /\ ExtendsCycle # {})
    => (result.kind = "Ok" /\ ExtendsCycle \subseteq DOMAIN result.config.jobs)

\* C8: parse of a root file that is readable YAML returns a configuration
\* whatever the shapes of its top-level values, and every top-level job with
\* a mapping body is in it.
C8_RootAlwaysAssembles ==
    (Parsed /\ RootIsYaml /\ ~IncludeCycle /\ (RootIsMapping => ExtendsCycle = {}))
    => /\ result.kind = "Ok"
       /\ RootIsMapping =>
             \A k \in Keys(TopPairs) \ {s_include, s_variables, s_stages} :
                 Body(TopPairs, k).t = "Mapping" => k \in DOMAIN result.config.jobs

\* C9: during the assembly of the root file every job name is built at most
\* once, and a sibling job in a resolved parent list is the very object the
\* configuration stores under that name.
C9_JobsBuiltOnce ==
    Assembled =>
        /\ \A n \in DOMAIN result.config.jobs :
              Cardinality({i \in 1..Len(result.log) : result.log[i] = <<result.config.file, n>>}) <= 1
        /\ \A n \in DOMAIN result.config.jobs :
              LET J == result.config.jobs[n].job
              IN  J.extends # None /\ Len(J.extends[1]) = 1 /\ Len(J.extends_jobs) = 1
                  /\ J.extends[1][1] # n /\ J.extends[1][1] \in DOMAIN result.config.jobs
                  => J.extends_jobs[1].ptr = result.config.jobs[J.extends[1][1]].ptr

\* C10: when the include graph reached from the root file has a cycle, parse
\* still returns a configuration.
C10_IncludeCycleTerminates ==
    (Parsed /\ RootIsMapping /\ IncludeCycle) => result.kind = "Ok"

====
